---- MODULE Spec2Model ----
(***************************************************************************)
(* State machine of the veo3free dispatcher (src/main.py): TaskManager    *)
(* (job list, scan cursor, running flag, worker map), WebSocketServer     *)
(* (per-connection handler coroutine, chunk buffer) and the dispatch loop  *)
(* Api._execute_tasks.  Every action is one run of code between two       *)
(* suspension points of the asyncio event loop (await recv / await send / *)
(* await sleep), or one call made by the front end.  The front end runs   *)
(* in a thread of its own, so its calls also fall between the test of the *)
(* loop's while condition and the pass that follows it.                   *)
(*                                                                         *)
(* Python None is the empty tuple <<>>; a set timestamp is <<t>>; a       *)
(* client id "c{n}_{s}" is <<n, s>>; a task id "task_{n}_{stamp}" is      *)
(* <<n, stamp>>.  Status strings: Pending = '等待中', Processing =        *)
(* '处理中', Completed = '已完成', DownloadFailed = '下载失败',           *)
(* Failed = '失败', TimedOut = '超时'.                                    *)
(***************************************************************************)
EXTENDS Integers, Sequences, FiniteSets, TLC

\* ---- bounds of the model ----
MaxTasks == 2
MaxConns == 2
MaxLoops == 1
MaxChunks == 3
MaxRegConns == 3
MaxAdders == 2
MaxStarts == 2

\* ---- program constants ----
TASK_TIMEOUT_SECONDS == 600
CLIENT_COOLDOWN_SECONDS == 3
IdModulus == 10000

\* ---- input sets ----
Urls == {"u1", "u2"}
Prompts == {<<>>, <<" ">>, <<"p">>}
TaskTypes == {"Text to Video", "Frames to Video"}
ReferenceLists == {<<>>, <<"img">>}
RowTags == {<<>>, <<1>>}
ChunkTotals == {1}
Fragments == {<<"b">>, <<"c">>, <<"d">>}
\* The instants at which the clock is read.  Instants: the start, the end of a
\* cooldown window opened at 0, and an instant at which a task started at 0 has
\* timed out while one started at 3 (600 s old) has not.  CoarseInstants leaves
\* out the middle one.
Instants == {0, CLIENT_COOLDOWN_SECONDS, TASK_TIMEOUT_SECONDS + CLIENT_COOLDOWN_SECONDS}
CoarseInstants == {0, TASK_TIMEOUT_SECONDS + CLIENT_COOLDOWN_SECONDS}

Conns == 1..MaxConns
Adders == 1..MaxAdders
LoopSlots == 1..MaxLoops
None == <<>>

Pending == "Pending"
Processing == "Processing"
Completed == "Completed"
DownloadFailed == "DownloadFailed"
Failed == "Failed"
TimedOut == "TimedOut"
Terminal == {Completed, DownloadFailed, Failed, TimedOut}

VARIABLES
  tasks,            \* TaskManager.tasks: sequence of task records
  current_index,    \* TaskManager.current_index (0-based, as in the code)
  is_running,       \* TaskManager.is_running
  clients,          \* TaskManager.clients: insertion-ordered dict, as a sequence of entries
  next_page_number, \* TaskManager.next_page_number
  chunk_buffer,     \* WebSocketServer.chunk_buffer: task position -> dict chunk index -> data
  files,            \* row tags whose target output file exists on disk
  now,              \* the wall clock, in seconds
  handler,          \* per connection: position and locals of WebSocketServer.handler
  loop,             \* per coroutine slot: position and locals of Api._execute_tasks
  delivered,        \* task position -> connection that received its task message (0: none)
  upload,           \* the image a worker uploads in chunks: total_chunks and the data of each chunk
  base64_data,      \* the payload last handed to handle_image_result (None before)
  adding            \* per front-end thread: the task dict add_task has built and not yet appended

vars == <<tasks, current_index, is_running, clients, next_page_number,
          chunk_buffer, files, now, handler, loop, delivered, upload, base64_data,
          adding>>

\* the coroutine slots of the run: one per _execute_tasks that can be scheduled
Loops == DOMAIN loop

\* ------------------------------------------------------------------
\* Pure helpers
\* ------------------------------------------------------------------

\* str.strip() on a prompt given as a sequence of characters
RECURSIVE LStrip(_)
LStrip(s) == IF s # <<>> /\ Head(s) = " " THEN LStrip(Tail(s)) ELSE s

RECURSIVE RStrip(_)
RStrip(s) == IF s # <<>> /\ s[Len(s)] = " " THEN RStrip(SubSeq(s, 1, Len(s) - 1)) ELSE s

Strip(s) == RStrip(LStrip(s))

\* a list comprehension: the function f over 1..n as a sequence
ListOf(f, n) == SubSeq(f, 1, n)

\* position (1-based) of the first task whose id is tid, 0 if none:
\* "for task in self.tasks: if task['id'] == task_id: ... break"
FindTask(ts, tid) ==
  IF \E i \in DOMAIN ts : ts[i].id = tid
  THEN CHOOSE i \in DOMAIN ts : ts[i].id = tid /\ \A j \in 1..(i - 1) : ts[j].id # tid
  ELSE 0

\* position of the entry with key cid in the clients dict, 0 if absent
FindClient(cl, cid) ==
  IF \E k \in DOMAIN cl : cl[k].id = cid
  THEN CHOOSE k \in DOMAIN cl : cl[k].id = cid
  ELSE 0

\* del self.clients[cid]
DelClient(cl, cid) == SelectSeq(cl, LAMBDA e : e.id # cid)

\* A chunk dict, in insertion order, as a sequence of [index, data] entries.
\* d[k] = v: a key already present keeps its place
DictHas(d, k) == \E j \in DOMAIN d : d[j].index = k

DictGet(d, k) == d[CHOOSE j \in DOMAIN d : d[j].index = k].data

DictPut(d, k, v) ==
  IF DictHas(d, k)
  THEN [d EXCEPT ![CHOOSE j \in DOMAIN d : d[j].index = k].data = v]
  ELSE Append(d, [index |-> k, data |-> v])

\* the join that takes the values in the order of their arrival
RECURSIVE Join_ArrivalOrder(_, _)
Join_ArrivalOrder(d, total_chunks) ==
  IF d = <<>> THEN <<>>
  ELSE Head(d).data \o Join_ArrivalOrder(Tail(d), total_chunks)

\* ''.join(d[i] for i in range(total_chunks))
RECURSIVE Join(_, _)
Join(d, total_chunks) ==
  IF total_chunks = 0 THEN <<>>
  ELSE Join(d, total_chunks - 1) \o DictGet(d, total_chunks - 1)

\* ------------------------------------------------------------------
\* TaskManager
\* ------------------------------------------------------------------

\* register_client: the dict after the call
\* the new id is c{len(clients)}_{int(time.time()) % 10000}, computed after the eviction
RegisterId(cl, url, t) ==
  <<Len(SelectSeq(cl, LAMBDA e : e.url # url)), t % IdModulus>>

\* register_client without the eviction of the entry that has the same page url
RegisterClient_NoEvict(cl, ws, url, t, page) ==
  LET cid == <<Len(cl), t % IdModulus>>
      entry == [id |-> cid, ws |-> ws, url |-> url, busy |-> FALSE,
                task_id |-> None, page_number |-> page, last_task_end |-> None]
      k == FindClient(cl, cid)
  IN IF k = 0 THEN Append(cl, entry)
     ELSE [cl EXCEPT ![k] = entry]

RegisterClient(cl, ws, url, t, page) ==
  LET kept == SelectSeq(cl, LAMBDA e : e.url # url)
      cid == RegisterId(cl, url, t)
      entry == [id |-> cid, ws |-> ws, url |-> url, busy |-> FALSE,
                task_id |-> None, page_number |-> page, last_task_end |-> None]
      k == FindClient(kept, cid)
  IN IF k = 0 THEN Append(kept, entry)
     ELSE [kept EXCEPT ![k] = entry]

\* remove_client that resets the worker's job whatever its status
RemoveClientTasks_AnyStatus(ts, cl, cid) ==
  LET k == FindClient(cl, cid)
  IN IF k = 0 \/ cl[k].task_id = None THEN ts
     ELSE ListOf([i \in DOMAIN ts |->
             IF ts[i].id = cl[k].task_id
             THEN [ts[i] EXCEPT !.status = Pending]
             ELSE ts[i]], Len(ts))

\* remove_client: the tasks after the call
RemoveClientTasks(ts, cl, cid) ==
  LET k == FindClient(cl, cid)
  IN IF k = 0 \/ cl[k].task_id = None THEN ts
     ELSE ListOf([i \in DOMAIN ts |->
             IF ts[i].id = cl[k].task_id /\ ts[i].status = Processing
             THEN [ts[i] EXCEPT !.status = Pending]
             ELSE ts[i]], Len(ts))

\* remove_client that keeps the entry
RemoveClientClients_Keep(cl, cid) == cl

\* remove_client: the dict after the call
RemoveClientClients(cl, cid) == DelClient(cl, cid)

\* get_idle_client without the cooldown test
IsIdle_NoCooldown(e, t) == ~e.busy

\* get_idle_client: the test an entry must pass to be returned
IsIdle(e, t) ==
  /\ ~e.busy
  /\ \/ e.last_task_end = None
     \/ t - e.last_task_end[1] >= CLIENT_COOLDOWN_SECONDS

\* get_idle_client returning the last entry that passes the test
GetIdleClient_Last(cl, t) ==
  IF \E k \in DOMAIN cl : IsIdle(cl[k], t)
  THEN CHOOSE k \in DOMAIN cl : IsIdle(cl[k], t) /\ \A j \in (k + 1)..Len(cl) : ~IsIdle(cl[j], t)
  ELSE 0

\* get_idle_client: position of the entry returned, 0 for (None, None)
GetIdleClient(cl, t) ==
  IF \E k \in DOMAIN cl : IsIdle(cl[k], t)
  THEN CHOOSE k \in DOMAIN cl : IsIdle(cl[k], t) /\ \A j \in 1..(k - 1) : ~IsIdle(cl[j], t)
  ELSE 0

\* mark_client_busy: the dict and the tasks after the call
MarkBusyClients(cl, cid, tid) ==
  ListOf([k \in DOMAIN cl |->
     IF cl[k].id = cid THEN [cl[k] EXCEPT !.busy = TRUE, !.task_id = tid] ELSE cl[k]], Len(cl))

\* mark_client_busy without the assignment of the worker id to the task
MarkBusyTasks_NoAssign(ts, cl, cid, tid) == ts

MarkBusyTasks(ts, cl, cid, tid) ==
  LET i == FindTask(ts, tid)
  IN IF FindClient(cl, cid) = 0 \/ i = 0 THEN ts
     ELSE [ts EXCEPT ![i].client_id = cid]

\* mark_client_idle that leaves the entry as it is
MarkClientIdle_NoOp(cl, cid, t) == cl

\* mark_client_idle
MarkClientIdle(cl, cid, t) ==
  ListOf([k \in DOMAIN cl |->
     IF cl[k].id = cid
     THEN [cl[k] EXCEPT !.busy = FALSE, !.task_id = None, !.last_task_end = <<t>>]
     ELSE cl[k]], Len(cl))

\* update_task_status_detail
UpdateTaskStatusDetail(ts, tid, detail) ==
  LET i == FindTask(ts, tid)
  IN IF i = 0 THEN ts ELSE [ts EXCEPT ![i].status_detail = detail]

\* get_next_task that returns the last Pending task of the list
GetNextTask_LastPending(ts, idx) ==
  IF \E i \in DOMAIN ts : ts[i].status = Pending
  THEN (CHOOSE i \in DOMAIN ts :
          ts[i].status = Pending /\ \A j \in (i + 1)..Len(ts) : ts[j].status # Pending) - 1
  ELSE Len(ts)

\* get_next_task with a scan that restarts at the head of the list
GetNextTask_Rescan(ts, idx) ==
  IF \E i \in DOMAIN ts : ts[i].status = Pending
  THEN (CHOOSE i \in DOMAIN ts :
          ts[i].status = Pending /\ \A j \in 1..(i - 1) : ts[j].status # Pending) - 1
  ELSE Len(ts)

\* get_next_task: the cursor after the call (the task returned is the one at the
\* cursor if the cursor is inside the list, None otherwise)
RECURSIVE GetNextTask(_, _)
GetNextTask(ts, idx) ==
  IF idx < Len(ts) /\ ts[idx + 1].status # Pending
  THEN GetNextTask(ts, idx + 1)
  ELSE idx

\* check_timeout_tasks
IsTimedOut(task, t) ==
  /\ task.status = Processing
  /\ task.start_time # None
  /\ t - task.start_time[1] > TASK_TIMEOUT_SECONDS

\* check_timeout_tasks without the end-time stamp
CheckTimeoutTasks_NoStamp(ts, t) ==
  ListOf([i \in DOMAIN ts |->
     IF IsTimedOut(ts[i], t)
     THEN [ts[i] EXCEPT !.status = TimedOut, !.status_detail = "timeout"]
     ELSE ts[i]], Len(ts))

CheckTimeoutTasks(ts, t) ==
  ListOf([i \in DOMAIN ts |->
     IF IsTimedOut(ts[i], t)
     THEN [ts[i] EXCEPT !.status = TimedOut, !.end_time = <<t>>,
                        !.status_detail = "timeout"]
     ELSE ts[i]], Len(ts))

\* check_timeout_tasks without freeing the client of a timed-out task
CheckTimeoutClients_NoFree(ts, cl, t) == cl

CheckTimeoutClients(ts, cl, t) ==
  ListOf([k \in DOMAIN cl |->
     IF \E i \in DOMAIN ts : IsTimedOut(ts[i], t) /\ ts[i].client_id = cl[k].id
     THEN [cl[k] EXCEPT !.busy = FALSE, !.task_id = None]
     ELSE cl[k]], Len(cl))

\* ------------------------------------------------------------------
\* Initial state: TaskManager.__init__, WebSocketServer.__init__
\* ------------------------------------------------------------------
Init ==
  /\ tasks = <<>>
  /\ current_index = 0
  /\ is_running = FALSE
  /\ clients = <<>>
  /\ next_page_number = 1
  /\ chunk_buffer = [i \in 1..MaxTasks |-> <<>>]
  /\ files = {}
  /\ now = 0
  /\ handler = [c \in Conns |-> [pc |-> "recv_first", client_id |-> None]]
  /\ loop = [l \in LoopSlots |-> [pc |-> "off", task |-> 0, client_id |-> None, ws |-> 0]]
  /\ delivered = [i \in 1..MaxTasks |-> 0]
  /\ upload \in {[total_chunks |-> n, data |-> [k \in 0..(n - 1) |-> <<"b">>]] : n \in ChunkTotals}
  /\ base64_data = None
  /\ adding = [a \in Adders |-> None]

\* ------------------------------------------------------------------
\* Front end (Api)
\* ------------------------------------------------------------------

\* add_task that stores the reference images the caller passed, whatever the type
AddTaskResult_KeepReferences(ts, prompt, task_type, reference_images, row, t) ==
  IF Strip(prompt) = <<>> THEN ts
  ELSE Append(ts, [id |-> <<Len(ts), t>>,
                   prompt |-> Strip(prompt),
                   status |-> Pending,
                   status_detail |-> "",
                   client_id |-> None,
                   task_type |-> task_type,
                   reference_images |-> reference_images,
                   start_time |-> None,
                   end_time |-> None,
                   import_row_number |-> row])

\* TaskManager.add_task: the list after the call
AddTaskResult(ts, prompt, task_type, reference_images, row, t) ==
  IF Strip(prompt) = <<>> THEN ts
  ELSE Append(ts, [id |-> <<Len(ts), t>>,
                   prompt |-> Strip(prompt),
                   status |-> Pending,
                   status_detail |-> "",
                   client_id |-> None,
                   task_type |-> task_type,
                   reference_images |-> IF task_type = "Text to Video" THEN <<>>
                                        ELSE reference_images,
                   start_time |-> None,
                   end_time |-> None,
                   import_row_number |-> row])

\* Api.add_task (row = None) and Api.import_excel (row = the row number)
AddTask(prompt, task_type, reference_images, row) ==
  /\ Len(tasks) < MaxTasks
  /\ tasks' = AddTaskResult(tasks, prompt, task_type, reference_images, row, now)
  /\ UNCHANGED <<current_index, is_running, clients, next_page_number,
                 chunk_buffer, files, now, handler, loop, delivered,
                 upload, base64_data, adding>>

\* add_task in the front-end thread a, up to the construction of the task
\* dict: the id is built from len(self.tasks) and the clock as read here
AddTaskBegin(a, prompt, task_type, reference_images, row) ==
  /\ adding[a] = None
  /\ Strip(prompt) # <<>>
  /\ Len(tasks) + Cardinality({b \in Adders : adding[b] # None}) < MaxTasks
  /\ adding' = [adding EXCEPT ![a] =
                  AddTaskResult(tasks, prompt, task_type, reference_images,
                                row, now)[Len(tasks) + 1]]
  /\ UNCHANGED <<tasks, current_index, is_running, clients, next_page_number,
                 chunk_buffer, files, now, handler, loop, delivered,
                 upload, base64_data>>

\* self.tasks.append(task) in the front-end thread a
AddTaskAppend(a) ==
  /\ adding[a] # None
  /\ tasks' = Append(tasks, adding[a])
  /\ adding' = [adding EXCEPT ![a] = None]
  /\ UNCHANGED <<current_index, is_running, clients, next_page_number,
                 chunk_buffer, files, now, handler, loop, delivered,
                 upload, base64_data>>

\* start_execution without the test of the client count
StartExecution_NoClientTest(l) ==
  /\ tasks # <<>>
  /\ loop[l].pc = "off"
  /\ is_running' = TRUE
  /\ loop' = [loop EXCEPT ![l].pc = "top"]
  /\ UNCHANGED <<tasks, current_index, clients, next_page_number,
                 chunk_buffer, files, now, handler, delivered,
                 upload, base64_data, adding>>

\* Api.start_execution: the two early returns change nothing
StartExecution(l) ==
  /\ Len(clients) # 0
  /\ tasks # <<>>
  /\ loop[l].pc = "off"
  /\ is_running' = TRUE
  /\ loop' = [loop EXCEPT ![l].pc = "top"]
  /\ UNCHANGED <<tasks, current_index, clients, next_page_number,
                 chunk_buffer, files, now, handler, delivered,
                 upload, base64_data, adding>>

\* Api.stop_execution
StopExecution ==
  /\ is_running' = FALSE
  /\ UNCHANGED <<tasks, current_index, clients, next_page_number,
                 chunk_buffer, files, now, handler, loop, delivered,
                 upload, base64_data, adding>>

\* ------------------------------------------------------------------
\* Dispatch loop (Api._execute_tasks)
\* ------------------------------------------------------------------

\* the existing-file test of a task about to be dispatched
TargetExists(task, fs) ==
  /\ task.import_row_number # None
  /\ task.import_row_number[1] \in fs

\* the loop without the existing-file test
SkipExisting_NoSkip(ts, idx, cl, fs, t) == <<ts, GetNextTask(ts, idx)>>

\* The iterations that end in "continue" without an await (existing-file skip)
\* run back to back with the next iteration: the pair <<tasks, cursor>> reached
\* when the loop, started with swept tasks ts and cursor idx, first arrives at
\* an iteration that does not skip.
RECURSIVE SkipExisting(_, _, _, _, _)
SkipExisting(ts, idx, cl, fs, t) ==
  LET n == GetNextTask(ts, idx)
  IN IF /\ n < Len(ts)
        /\ GetIdleClient(cl, t) # 0
        /\ TargetExists(ts[n + 1], fs)
     THEN SkipExisting([ts EXCEPT ![n + 1].status = Completed,
                                  ![n + 1].end_time = <<t>>,
                                  ![n + 1].status_detail = "skipped"],
                       n + 1, cl, fs, t)
     ELSE <<ts, n>>

\* state at the last iteration of one uninterrupted run of the loop body
PassTasks == SkipExisting(CheckTimeoutTasks(tasks, now), current_index,
                          CheckTimeoutClients(tasks, clients, now), files, now)[1]
PassIndex == SkipExisting(CheckTimeoutTasks(tasks, now), current_index,
                          CheckTimeoutClients(tasks, clients, now), files, now)[2]
PassClients == CheckTimeoutClients(tasks, clients, now)

\* The event loop runs one coroutine at a time: between the test of the while
\* condition and the end of the pass that follows it no handler, no other loop
\* and no timer runs.  The front end (Api) runs in a thread of its own and is
\* not held back.
OnEventLoop == \A l \in Loops : loop[l].pc # "body"

\* "while self.task_manager.is_running" is true: the body runs
LoopEnter(l) ==
  /\ OnEventLoop
  /\ loop[l].pc = "top"
  /\ is_running
  /\ loop' = [loop EXCEPT ![l].pc = "body"]
  /\ UNCHANGED <<tasks, current_index, is_running, clients, next_page_number,
                 chunk_buffer, files, now, handler, delivered, upload, base64_data, adding>>

\* "while self.task_manager.is_running" is false: the loop ends
LoopExit(l) ==
  /\ OnEventLoop
  /\ loop[l].pc = "top"
  /\ ~is_running
  /\ is_running' = FALSE
  /\ loop' = [loop EXCEPT ![l].pc = "off"]
  /\ UNCHANGED <<tasks, current_index, clients, next_page_number,
                 chunk_buffer, files, now, handler, delivered,
                 upload, base64_data, adding>>

\* no task and no busy client: break
LoopDrained(l) ==
  /\ loop[l].pc = "body"
  /\ PassIndex >= Len(PassTasks)
  /\ \A k \in DOMAIN PassClients : ~PassClients[k].busy
  /\ tasks' = PassTasks
  /\ clients' = PassClients
  /\ current_index' = PassIndex
  /\ is_running' = FALSE
  /\ loop' = [loop EXCEPT ![l].pc = "off"]
  /\ UNCHANGED <<next_page_number, chunk_buffer, files, now, handler, delivered,
                 upload, base64_data, adding>>

\* no task but some client busy: sleep(1), continue
LoopWaitBusy(l) ==
  /\ loop[l].pc = "body"
  /\ PassIndex >= Len(PassTasks)
  /\ \E k \in DOMAIN PassClients : PassClients[k].busy
  /\ tasks' = PassTasks
  /\ clients' = PassClients
  /\ current_index' = PassIndex
  /\ loop' = [loop EXCEPT ![l].pc = "top"]
  /\ UNCHANGED <<is_running, next_page_number, chunk_buffer, files, now,
                 handler, delivered, upload, base64_data, adding>>

\* the no-idle branch with the cursor moved past the task
LoopNoIdle_Advance(l) ==
  /\ loop[l].pc = "body"
  /\ PassIndex < Len(PassTasks)
  /\ GetIdleClient(PassClients, now) = 0
  /\ tasks' = PassTasks
  /\ clients' = PassClients
  /\ current_index' = PassIndex + 1
  /\ loop' = [loop EXCEPT ![l].pc = "top"]
  /\ UNCHANGED <<is_running, next_page_number, chunk_buffer, files, now,
                 handler, delivered, upload, base64_data, adding>>

\* a task but no idle client: sleep(1), continue
LoopNoIdle(l) ==
  /\ loop[l].pc = "body"
  /\ PassIndex < Len(PassTasks)
  /\ GetIdleClient(PassClients, now) = 0
  /\ tasks' = PassTasks
  /\ clients' = PassClients
  /\ current_index' = PassIndex
  /\ loop' = [loop EXCEPT ![l].pc = "top"]
  /\ UNCHANGED <<is_running, next_page_number, chunk_buffer, files, now,
                 handler, delivered, upload, base64_data, adding>>

\* a task and an idle client: assign, then await ws.send(message)
LoopDispatch(l) ==
  /\ loop[l].pc = "body"
  /\ PassIndex < Len(PassTasks)
  /\ GetIdleClient(PassClients, now) # 0
  /\ LET i == PassIndex + 1
         e == PassClients[GetIdleClient(PassClients, now)]
         ts1 == [PassTasks EXCEPT ![i].status = Processing, ![i].start_time = <<now>>]
     IN /\ tasks' = MarkBusyTasks(ts1, PassClients, e.id, ts1[i].id)
        /\ clients' = MarkBusyClients(PassClients, e.id, ts1[i].id)
        /\ current_index' = PassIndex + 1
        /\ loop' = [loop EXCEPT ![l] = [pc |-> "send", task |-> i,
                                        client_id |-> e.id, ws |-> e.ws]]
  /\ UNCHANGED <<is_running, next_page_number, chunk_buffer, files, now,
                 handler, delivered,
                 upload, base64_data, adding>>

\* the send returned: sleep(0.5), next iteration
LoopSendOk(l) ==
  /\ OnEventLoop
  /\ loop[l].pc = "send"
  /\ handler[loop[l].ws].pc \in {"send_ack", "serve"}
  /\ delivered' = [delivered EXCEPT ![loop[l].task] = loop[l].ws]
  /\ loop' = [loop EXCEPT ![l] = [pc |-> "top", task |-> 0, client_id |-> None, ws |-> 0]]
  /\ UNCHANGED <<tasks, current_index, is_running, clients, next_page_number,
                 chunk_buffer, files, now, handler,
                 upload, base64_data, adding>>

\* the send raised: revert the task, free the client, sleep(0.5), next iteration
LoopSendFail(l) ==
  /\ OnEventLoop
  /\ loop[l].pc = "send"
  /\ tasks' = [tasks EXCEPT ![loop[l].task].status = Pending]
  /\ clients' = MarkClientIdle(clients, loop[l].client_id, now)
  /\ loop' = [loop EXCEPT ![l] = [pc |-> "top", task |-> 0, client_id |-> None, ws |-> 0]]
  /\ UNCHANGED <<current_index, is_running, next_page_number, chunk_buffer,
                 files, now, handler, delivered,
                 upload, base64_data, adding>>

\* The clock advances to a later instant.  A send that is under way completes
\* or fails within the instant at which it started.
Tick(t) ==
  /\ OnEventLoop
  /\ t > now
  /\ \A l \in Loops : loop[l].pc # "send"
  /\ \A c \in DOMAIN handler : handler[c].pc # "send_ack"
  /\ now' = t
  /\ UNCHANGED <<tasks, current_index, is_running, clients, next_page_number,
                 chunk_buffer, files, handler, loop, delivered,
                 upload, base64_data, adding>>

\* ------------------------------------------------------------------
\* Connection handler (WebSocketServer.handler)
\* ------------------------------------------------------------------

\* Connections and page urls are interchangeable, so connections are taken into
\* use in index order and the first registration ever uses the first url.
FirstUnused(c) == \A b \in 1..(c - 1) : handler[b].pc # "recv_first"

\* a rejection that consumes a page number
RecvFirstBad_Counts(c) ==
  /\ OnEventLoop
  /\ handler[c].pc = "recv_first"
  /\ FirstUnused(c)
  /\ handler' = [handler EXCEPT ![c].pc = "done"]
  /\ next_page_number' = next_page_number + 1
  /\ UNCHANGED <<tasks, current_index, is_running, clients,
                 chunk_buffer, files, now, loop, delivered, upload, base64_data, adding>>

\* the first message is not a register message (or cannot be read): return;
\* client_id is None, so the finally block does nothing
RecvFirstBad(c) ==
  /\ OnEventLoop
  /\ handler[c].pc = "recv_first"
  /\ FirstUnused(c)
  /\ handler' = [handler EXCEPT ![c].pc = "done"]
  /\ UNCHANGED <<tasks, current_index, is_running, clients, next_page_number,
                 chunk_buffer, files, now, loop, delivered,
                 upload, base64_data, adding>>

\* the first message is a register message: register_client, then await the
\* send of register_success
RecvRegister(c, url) ==
  /\ OnEventLoop
  /\ handler[c].pc = "recv_first"
  /\ FirstUnused(c)
  /\ next_page_number = 1 => url = "u1"
  /\ clients' = RegisterClient(clients, c, url, now, next_page_number)
  /\ next_page_number' = next_page_number + 1
  /\ handler' = [handler EXCEPT ![c] = [pc |-> "send_ack",
                                        client_id |-> RegisterId(clients, url, now)]]
  /\ UNCHANGED <<tasks, current_index, is_running, chunk_buffer, files, now,
                 loop, delivered,
                 upload, base64_data, adding>>

\* register_success was sent: enter "async for message in websocket"
AckSent(c) ==
  /\ OnEventLoop
  /\ handler[c].pc = "send_ack"
  /\ handler' = [handler EXCEPT ![c].pc = "serve"]
  /\ UNCHANGED <<tasks, current_index, is_running, clients, next_page_number,
                 chunk_buffer, files, now, loop, delivered,
                 upload, base64_data, adding>>

\* The handler leaves its try block after registration: the connection closed,
\* the send of register_success failed, or handling a message raised.  The
\* finally block runs remove_client(client_id).
HandlerExit(c) ==
  /\ OnEventLoop
  /\ handler[c].pc \in {"send_ack", "serve"}
  /\ tasks' = RemoveClientTasks(tasks, clients, handler[c].client_id)
  /\ clients' = RemoveClientClients(clients, handler[c].client_id)
  /\ handler' = [handler EXCEPT ![c] = [pc |-> "done", client_id |-> None]]
  /\ UNCHANGED <<current_index, is_running, next_page_number, chunk_buffer,
                 files, now, loop, delivered,
                 upload, base64_data, adding>>

\* handle_image_result: the tasks, the files and the dict after the call;
\* saved is the outcome of ImageDownloader.save_base64_image
ImageResultTasks(ts, tid, saved, t) ==
  LET i == FindTask(ts, tid)
  IN IF i = 0 THEN ts
     ELSE IF saved
          THEN [ts EXCEPT ![i].status = Completed, ![i].end_time = <<t>>]
          ELSE [ts EXCEPT ![i].status = DownloadFailed, ![i].end_time = <<t>>]

ImageResultFiles(ts, fs, tid, saved) ==
  LET i == FindTask(ts, tid)
  IN IF i # 0 /\ saved /\ ts[i].import_row_number # None
     THEN fs \cup {ts[i].import_row_number[1]}
     ELSE fs

\* handle_image_result without its last line
ImageResultClients_Keep(cl, cid, t) == cl

\* handle_image_result: the last line, mark_client_idle(client_id)
ImageResultClients(cl, cid, t) == MarkClientIdle(cl, cid, t)

\* Messages of a registered connection.  A worker names a task only after the
\* task message carrying that id was sent to its connection.
Knows(c, i) ==
  /\ handler[c].pc = "serve"
  /\ i \in DOMAIN tasks
  /\ delivered[i] = c

\* image_chunk: store the fragment; when len(buffer) == total_chunks, join
\* range(total_chunks), delete the buffer and persist
MsgImageChunk(c, i, chunk_index, total_chunks, data, saved) ==
  /\ OnEventLoop
  /\ Knows(c, i)
  /\ LET buf == DictPut(chunk_buffer[i], chunk_index, data)
     IN IF Len(buf) # total_chunks
        THEN /\ chunk_buffer' = [chunk_buffer EXCEPT ![i] = buf]
             /\ UNCHANGED <<tasks, clients, files, handler, base64_data, adding>>
        ELSE IF \A n \in 0..(total_chunks - 1) : DictHas(buf, n)
        THEN /\ chunk_buffer' = [chunk_buffer EXCEPT ![i] = <<>>]
             /\ base64_data' = Join(buf, total_chunks)
             /\ tasks' = ImageResultTasks(tasks, tasks[i].id, saved, now)
             /\ files' = ImageResultFiles(tasks, files, tasks[i].id, saved)
             /\ clients' = ImageResultClients(clients, handler[c].client_id, now)
             /\ UNCHANGED handler
        ELSE \* KeyError in the join: except, then finally
             /\ chunk_buffer' = [chunk_buffer EXCEPT ![i] = buf]
             /\ tasks' = RemoveClientTasks(tasks, clients, handler[c].client_id)
             /\ clients' = RemoveClientClients(clients, handler[c].client_id)
             /\ handler' = [handler EXCEPT ![c] = [pc |-> "done", client_id |-> None]]
             /\ UNCHANGED <<files, base64_data, adding>>
  /\ UNCHANGED <<current_index, is_running, next_page_number, now, loop, delivered,
                 upload, adding>>

\* the whole image of an upload: its chunks concatenated in index order
RECURSIVE InIndexOrder(_, _)
InIndexOrder(f, n) ==
  IF n = 0 THEN <<>> ELSE InIndexOrder(f, n - 1) \o f[n - 1]

\* image_data: the message carries the whole image
MsgImageData(c, i, image_data, saved) ==
  /\ OnEventLoop
  /\ Knows(c, i)
  /\ base64_data' = image_data
  /\ tasks' = ImageResultTasks(tasks, tasks[i].id, saved, now)
  /\ files' = ImageResultFiles(tasks, files, tasks[i].id, saved)
  /\ clients' = ImageResultClients(clients, handler[c].client_id, now)
  /\ UNCHANGED <<current_index, is_running, next_page_number, chunk_buffer,
                 now, handler, loop, delivered,
                 upload, adding>>

\* the result branch failing the task whether or not the message has an error
ResultTasks_Always(ts, tid, error, t) ==
  LET i == FindTask(ts, tid)
  IN IF i # 0
     THEN [ts EXCEPT ![i].status = Failed, ![i].status_detail = "error",
                     ![i].end_time = <<t>>]
     ELSE ts

\* result: the tasks after the branch "if error"
ResultTasks(ts, tid, error, t) ==
  LET i == FindTask(ts, tid)
  IN IF error /\ i # 0
     THEN [ts EXCEPT ![i].status = Failed, ![i].status_detail = "error",
                     ![i].end_time = <<t>>]
     ELSE ts

MsgResult(c, i, error) ==
  /\ OnEventLoop
  /\ Knows(c, i)
  /\ tasks' = ResultTasks(tasks, tasks[i].id, error, now)
  /\ clients' = MarkClientIdle(clients, handler[c].client_id, now)
  /\ UNCHANGED <<current_index, is_running, next_page_number, chunk_buffer,
                 files, now, handler, loop, delivered,
                 upload, base64_data, adding>>

\* status: the text goes to the task the client entry currently names
StatusTasks(ts, cl, cid) ==
  LET k == FindClient(cl, cid)
  IN IF k = 0 \/ cl[k].task_id = None THEN ts
     ELSE UpdateTaskStatusDetail(ts, cl[k].task_id, "status")

MsgStatus(c) ==
  /\ OnEventLoop
  /\ handler[c].pc = "serve"
  /\ tasks' = StatusTasks(tasks, clients, handler[c].client_id)
  /\ UNCHANGED <<current_index, is_running, clients, next_page_number,
                 chunk_buffer, files, now, handler, loop, delivered,
                 upload, base64_data, adding>>

\* ------------------------------------------------------------------
\* Specification
\* ------------------------------------------------------------------
\* the front end and the dispatch loop; rows: the row tags tasks are enqueued with
Core(rows) ==
  \/ \E prompt \in Prompts, reference_images \in ReferenceLists, row \in rows :
       AddTask(prompt, "Text to Video", reference_images, row)
  \/ \E l \in Loops : StartExecution(l)
  \/ StopExecution
  \/ \E l \in Loops : LoopEnter(l)
  \/ \E l \in Loops : LoopExit(l)
  \/ \E l \in Loops : LoopDrained(l)
  \/ \E l \in Loops : LoopWaitBusy(l)
  \/ \E l \in Loops : LoopNoIdle(l)
  \/ \E l \in Loops : LoopDispatch(l)
  \/ \E l \in Loops : LoopSendOk(l)
  \/ \E l \in Loops : LoopSendFail(l)

Serve(cs) ==
  \/ \E c \in cs : RecvFirstBad(c)
  \/ \E c \in cs, url \in Urls : RecvRegister(c, url)
  \/ \E c \in cs : AckSent(c)
  \/ \E c \in cs : HandlerExit(c)
  \/ \E c \in cs, i \in 1..MaxTasks, saved \in BOOLEAN :
       \E n \in 0..(upload.total_chunks - 1) :
         MsgImageChunk(c, i, n, upload.total_chunks, upload.data[n], saved)
  \/ \E c \in cs, i \in 1..MaxTasks, saved \in BOOLEAN :
       MsgImageData(c, i, InIndexOrder(upload.data, upload.total_chunks), saved)
  \/ \E c \in cs, i \in 1..MaxTasks, error \in BOOLEAN : MsgResult(c, i, error)
  \/ \E c \in cs : MsgStatus(c)

\* every connection, coarse clock, tasks without a row tag
Next ==
  \/ Core({None})
  \/ Serve(Conns)
  \/ \E t \in CoarseInstants : Tick(t)

Spec == Init /\ [][Next]_vars

\* one worker connection, fine clock
NextTimed ==
  \/ Core(RowTags)
  \/ Serve({1})
  \/ \E t \in Instants : Tick(t)

SpecTimed == Init /\ [][NextTimed]_vars

\* The loop keeps being scheduled and restarted, and the clock keeps advancing;
\* nobody presses stop.
NextFair ==
  \/ \E prompt \in Prompts, reference_images \in ReferenceLists, row \in RowTags :
       AddTask(prompt, "Text to Video", reference_images, row)
  \/ \E l \in Loops : StartExecution(l)
  \/ \E l \in Loops : LoopEnter(l)
  \/ \E l \in Loops : LoopDrained(l)
  \/ \E l \in Loops : LoopWaitBusy(l)
  \/ \E l \in Loops : LoopNoIdle(l)
  \/ \E l \in Loops : LoopDispatch(l)
  \/ \E l \in Loops : LoopSendOk(l)
  \/ \E l \in Loops : LoopSendFail(l)
  \/ Serve({1})
  \/ \E t \in Instants : Tick(t)

LoopStep(l) ==
  \/ LoopEnter(l)
  \/ LoopDrained(l) \/ LoopWaitBusy(l) \/ LoopNoIdle(l) \/ LoopDispatch(l)
  \/ LoopSendOk(l) \/ LoopSendFail(l)

SpecFair ==
  /\ Init /\ [][NextFair]_vars
  /\ \A l \in LoopSlots : WF_vars(LoopStep(l))
  /\ \A l \in LoopSlots : WF_vars(StartExecution(l))
  /\ WF_vars(\E t \in Instants : Tick(t))

\* A worker uploads an image of up to MaxChunks chunks, in any order and with
\* retransmissions, for the task it was sent: the state after add_task,
\* register, start_execution, one dispatch and its send, with the image drawn
\* from every split into chunks.
Uploads ==
  UNION {{[total_chunks |-> n, data |-> f] : f \in [0..(n - 1) -> Fragments]} :
           n \in 1..MaxChunks}

InitChunks ==
  LET ts0 == AddTaskResult(<<>>, <<"p">>, "Text to Video", <<>>, None, 0)
      cl0 == RegisterClient(<<>>, 1, "u1", 0, 1)
      cid == RegisterId(<<>>, "u1", 0)
      ts1 == [ts0 EXCEPT ![1].status = Processing, ![1].start_time = <<0>>]
  IN /\ tasks = MarkBusyTasks(ts1, cl0, cid, ts1[1].id)
     /\ clients = MarkBusyClients(cl0, cid, ts1[1].id)
     /\ current_index = 1
     /\ is_running = TRUE
     /\ next_page_number = 2
     /\ chunk_buffer = [i \in 1..MaxTasks |-> <<>>]
     /\ files = {}
     /\ now = 0
     /\ handler = [c \in Conns |-> IF c = 1 THEN [pc |-> "serve", client_id |-> cid]
                                            ELSE [pc |-> "recv_first", client_id |-> None]]
     /\ loop = [l \in LoopSlots |-> IF l = 1 THEN [pc |-> "top", task |-> 0, client_id |-> None, ws |-> 0]
                                         ELSE [pc |-> "off", task |-> 0, client_id |-> None, ws |-> 0]]
     /\ delivered = [i \in 1..MaxTasks |-> IF i = 1 THEN 1 ELSE 0]
     /\ upload \in Uploads
     /\ base64_data = None
     /\ adding = [a \in Adders |-> None]

NextChunks ==
  \E saved \in BOOLEAN, n \in 0..(upload.total_chunks - 1) :
    MsgImageChunk(1, 1, n, upload.total_chunks, upload.data[n], saved)

SpecChunks == InitChunks /\ [][NextChunks]_vars

\* The same worker sending fragments under any index from 0 to MaxChunks,
\* inside or outside the range of the split.
NextChunksAnyIndex ==
  \E saved \in BOOLEAN, n \in 0..MaxChunks :
    MsgImageChunk(1, 1, n, upload.total_chunks,
                  IF n < upload.total_chunks THEN upload.data[n] ELSE <<"d">>, saved)

SpecChunksAnyIndex == InitChunks /\ [][NextChunksAnyIndex]_vars

\* Jobs of every type appended with every reference list, one worker that
\* registers and answers with whole images, coarse clock.
NextAppend ==
  \/ \E prompt \in Prompts, task_type \in TaskTypes,
        reference_images \in ReferenceLists :
       AddTask(prompt, task_type, reference_images, None)
  \/ \E l \in Loops : StartExecution(l)
  \/ \E l \in Loops : LoopEnter(l)
  \/ \E l \in Loops : LoopDrained(l)
  \/ \E l \in Loops : LoopWaitBusy(l)
  \/ \E l \in Loops : LoopNoIdle(l)
  \/ \E l \in Loops : LoopDispatch(l)
  \/ \E l \in Loops : LoopSendOk(l)
  \/ RecvRegister(1, "u1")
  \/ AckSent(1)
  \/ \E i \in 1..MaxTasks :
       MsgImageData(1, i, InIndexOrder(upload.data, upload.total_chunks), TRUE)
  \/ \E t \in CoarseInstants : Tick(t)

SpecAppend == Init /\ [][NextAppend]_vars

\* Calls of add_task from MaxAdders front-end threads, each call in its two
\* steps, with the dispatch loop and one worker, coarse clock.
NextAdders ==
  \/ \E a \in Adders, prompt \in Prompts, task_type \in TaskTypes :
       AddTaskBegin(a, prompt, task_type, <<>>, None)
  \/ \E a \in Adders : AddTaskAppend(a)
  \/ \E l \in Loops : StartExecution(l)
  \/ \E l \in Loops : LoopEnter(l)
  \/ \E l \in Loops : LoopDrained(l)
  \/ \E l \in Loops : LoopWaitBusy(l)
  \/ \E l \in Loops : LoopNoIdle(l)
  \/ \E l \in Loops : LoopDispatch(l)
  \/ \E l \in Loops : LoopSendOk(l)
  \/ RecvRegister(1, "u1")
  \/ AckSent(1)
  \/ \E i \in 1..MaxTasks :
       MsgImageData(1, i, InIndexOrder(upload.data, upload.total_chunks), TRUE)
  \/ \E t \in CoarseInstants : Tick(t)

SpecAdders == Init /\ [][NextAdders]_vars

\* The front end calling start_execution up to MaxStarts times with no loop
\* of an earlier call finished: each call schedules a coroutine of its own.
\* One worker connection, coarse clock, tasks without a row tag.
InitStarts ==
  /\ tasks = <<>>
  /\ current_index = 0
  /\ is_running = FALSE
  /\ clients = <<>>
  /\ next_page_number = 1
  /\ chunk_buffer = [i \in 1..MaxTasks |-> <<>>]
  /\ files = {}
  /\ now = 0
  /\ handler = [c \in Conns |-> [pc |-> "recv_first", client_id |-> None]]
  /\ loop = [l \in 1..MaxStarts |-> [pc |-> "off", task |-> 0, client_id |-> None, ws |-> 0]]
  /\ delivered = [i \in 1..MaxTasks |-> 0]
  /\ upload \in {[total_chunks |-> n, data |-> [k \in 0..(n - 1) |-> <<"b">>]] : n \in ChunkTotals}
  /\ base64_data = None
  /\ adding = [a \in Adders |-> None]

NextStarts ==
  \/ Core({None})
  \/ Serve({1})
  \/ \E t \in CoarseInstants : Tick(t)

SpecStarts == InitStarts /\ [][NextStarts]_vars

\* Registrations and disconnections of MaxRegConns connections, with an empty
\* queue and no loop running.
RegConns == 1..MaxRegConns

InitRegister ==
  /\ tasks = <<>>
  /\ current_index = 0
  /\ is_running = FALSE
  /\ clients = <<>>
  /\ next_page_number = 1
  /\ chunk_buffer = [i \in 1..MaxTasks |-> <<>>]
  /\ files = {}
  /\ now = 0
  /\ handler = [c \in RegConns |-> [pc |-> "recv_first", client_id |-> None]]
  /\ loop = [l \in LoopSlots |-> [pc |-> "off", task |-> 0, client_id |-> None, ws |-> 0]]
  /\ delivered = [i \in 1..MaxTasks |-> 0]
  /\ upload \in {[total_chunks |-> n, data |-> [k \in 0..(n - 1) |-> <<"b">>]] : n \in ChunkTotals}
  /\ base64_data = None
  /\ adding = [a \in Adders |-> None]

NextRegister ==
  \/ \E c \in RegConns, url \in Urls : RecvRegister(c, url)
  \/ \E c \in RegConns : AckSent(c)
  \/ \E c \in RegConns : HandlerExit(c)
  \/ \E t \in CoarseInstants : Tick(t)

SpecRegister == InitRegister /\ [][NextRegister]_vars

\* ------------------------------------------------------------------
\* Properties
\* ------------------------------------------------------------------

\* the entry of worker id cid names a Processing job assigned to cid
NamesOwnProcessingJob(e) ==
  \E i \in DOMAIN tasks :
    /\ tasks[i].id = e.task_id
    /\ tasks[i].status = Processing
    /\ tasks[i].client_id = e.id

\* C1: in every reachable state, a worker is busy iff its current job id names
\* a job with status Processing whose assigned worker id is that worker's id.
C1_BusyIffOwnProcessingJob ==
  \A k \in DOMAIN clients : clients[k].busy <=> NamesOwnProcessingJob(clients[k])

\* a worker is busy with a job that has been delivered to it
C1_Witness ==
  \E k \in DOMAIN clients, i \in DOMAIN tasks :
    /\ clients[k].busy
    /\ clients[k].task_id = tasks[i].id
    /\ delivered[i] = clients[k].ws
    /\ \E j \in DOMAIN tasks : tasks[j].status \in Terminal

\* C2: for each worker id, at most one job is Processing with that assigned
\* worker id.
C2_AtMostOneProcessingPerWorker ==
  \A i, j \in DOMAIN tasks :
    (/\ i # j
     /\ tasks[i].status = Processing
     /\ tasks[j].status = Processing) => tasks[i].client_id # tasks[j].client_id

\* C3: when a worker disconnects while its job is Processing, the job goes back
\* to Pending at a position the scan cursor has not passed, so that the next
\* get_next_task can still reach it.
C3_RevertedJobReachable ==
  [][\A c \in Conns, i \in DOMAIN tasks :
       (/\ handler[c].pc \in {"send_ack", "serve"}
        /\ handler'[c].pc = "done"
        /\ tasks[i].status = Processing
        /\ tasks'[i].status = Pending) => i > current_index']_vars

\* C4 as stated: a job has an assigned worker id iff its status is Processing.
C4_AssignedIffProcessing ==
  \A i \in DOMAIN tasks : (tasks[i].client_id # None) <=> (tasks[i].status = Processing)

\* C4 amended: a Processing job has an assigned worker id, and a job has an
\* assigned worker id iff it has ever been dispatched (the id is never cleared).
C4_ProcessingHasWorker ==
  \A i \in DOMAIN tasks :
    /\ tasks[i].status = Processing => tasks[i].client_id # None
    /\ (tasks[i].client_id # None) <=> (tasks[i].start_time # None)

\* a job that completed still carries its worker id while another job is
\* Processing
C4_Witness ==
  /\ \E i \in DOMAIN tasks : tasks[i].status = Completed /\ tasks[i].client_id # None
  /\ \E i \in DOMAIN tasks : tasks[i].status = Processing /\ tasks[i].client_id # None

\* C5: once a job is Completed, DownloadFailed, Failed or TimedOut, no step
\* changes its status.
C5_TerminalIsFinal ==
  [][\A i \in DOMAIN tasks :
       tasks[i].status \in Terminal => tasks'[i].status = tasks[i].status]_vars

\* C6: a job reverted to Pending (it has a start time but is Pending) does not
\* stay Pending for ever while a worker is idle and out of cooldown.
RevertedPending(i) ==
  /\ i \in DOMAIN tasks
  /\ tasks[i].status = Pending
  /\ tasks[i].start_time # None

IdleWorkerReady == GetIdleClient(clients, now) # 0

C6_RevertedJobRedispatched ==
  \A i \in 1..MaxTasks : []<>(~(RevertedPending(i) /\ IdleWorkerReady))

\* C7: the scan cursor never decreases and never exceeds the number of jobs.
C7_CursorMonotone ==
  /\ [](current_index <= Len(tasks))
  /\ [][current_index' >= current_index /\ current_index' <= Len(tasks')]_vars

\* the cursor has passed every job, and one of them was reverted to Pending
C7_Witness ==
  /\ current_index = MaxTasks
  /\ \E i \in DOMAIN tasks : RevertedPending(i)

\* a job has status Processing and a start time older than the timeout
Overdue(i) ==
  /\ tasks[i].status = Processing
  /\ tasks[i].start_time # None
  /\ now - tasks[i].start_time[1] > TASK_TIMEOUT_SECONDS

\* a step in which the dispatch loop ran the sweep and the rest of a pass
SweepingStep ==
  \E l \in Loops : loop[l].pc = "body" /\ loop'[l].pc # "body"

\* C8: the sweep sets every overdue Processing job to TimedOut, stamps its end
\* time, and leaves the worker recorded for it (if registered) not busy.
C8_SweepTimesOut ==
  /\ [](\A i \in DOMAIN tasks :
          Overdue(i) =>
            /\ CheckTimeoutTasks(tasks, now)[i].status = TimedOut
            /\ CheckTimeoutTasks(tasks, now)[i].end_time = <<now>>
            /\ \A k \in DOMAIN clients :
                 clients[k].id = tasks[i].client_id
                   => ~CheckTimeoutClients(tasks, clients, now)[k].busy)
  /\ [][SweepingStep =>
          \A i \in DOMAIN tasks :
            Overdue(i) =>
              /\ tasks'[i].status = TimedOut
              /\ tasks'[i].end_time = <<now>>
              /\ \A k \in DOMAIN clients' :
                   clients'[k].id = tasks[i].client_id
                     => clients'[k].task_id # tasks[i].id]_vars

\* a job was swept to TimedOut and its worker, which never completed anything,
\* is registered and not busy
C8_Witness ==
  \E i \in DOMAIN tasks, k \in DOMAIN clients :
    /\ tasks[i].status = TimedOut
    /\ tasks[i].end_time = <<now>>
    /\ clients[k].id = tasks[i].client_id
    /\ ~clients[k].busy
    /\ clients[k].last_task_end = None

\* C9: the loop assigns a job only to a worker that was never marked idle or
\* was marked idle at least the cooldown duration ago; a worker whose cooldown
\* has elapsed is still in the pool and get_idle_client returns a worker.
C9_Cooldown ==
  /\ [][\A l \in Loops :
          (loop[l].pc = "body" /\ loop'[l].pc = "send") =>
            \A k \in DOMAIN clients :
              clients[k].id = loop'[l].client_id =>
                \/ clients[k].last_task_end = None
                \/ now - clients[k].last_task_end[1] >= CLIENT_COOLDOWN_SECONDS]_vars
  /\ [](\A k \in DOMAIN clients :
          (/\ ~clients[k].busy
           /\ clients[k].last_task_end # None
           /\ now - clients[k].last_task_end[1] >= CLIENT_COOLDOWN_SECONDS)
            => GetIdleClient(clients, now) \in 1..k)

\* a worker that completed a job is busy again, with a job started no earlier
\* than the end of its cooldown
C9_Witness ==
  \E k \in DOMAIN clients, i \in DOMAIN tasks, j \in DOMAIN tasks :
    /\ tasks[j].status = Completed
    /\ tasks[j].client_id = clients[k].id
    /\ clients[k].busy
    /\ clients[k].task_id = tasks[i].id
    /\ tasks[i].start_time # None
    /\ tasks[j].end_time # None
    /\ tasks[i].start_time[1] >= tasks[j].end_time[1] + CLIENT_COOLDOWN_SECONDS

\* C10: at most one worker in the pool carries any given page identifier.
C10_OneWorkerPerPage ==
  \A k1, k2 \in DOMAIN clients : k1 # k2 => clients[k1].url # clients[k2].url

\* two connections have registered, neither handler has exited, and the pool
\* holds one worker: the one of the later connection
C10_Witness ==
  /\ \A c \in Conns : handler[c].pc \in {"send_ack", "serve"}
  /\ next_page_number = MaxConns + 1
  /\ Len(clients) = 1
  /\ clients[1].page_number = MaxConns

\* ---- C11 ----
\* the job the loop reaches in its next pass, with an idle worker at hand and
\* the target file of its row tag already on disk
SkipDue(i) ==
  /\ i \in DOMAIN tasks
  /\ i = GetNextTask(CheckTimeoutTasks(tasks, now), current_index) + 1
  /\ GetIdleClient(PassClients, now) # 0
  /\ TargetExists(tasks[i], files)

\* a step in which the loop l ran a pass
PassStep(l) ==
  /\ loop[l].pc = "body"
  /\ loop'[l].pc # "body"

Skipped(i) ==
  /\ tasks[i].status = Completed
  /\ tasks[i].status_detail = "skipped"

\* C11: a pass that reaches a tagged job whose target file exists sets it to
\* Completed with the detail "skipped"; no worker is ever marked busy for a
\* skipped job and no task message is sent for it; every later step (a second
\* pass included) leaves it Completed with the same detail.
C11_SkipExistingIdempotent ==
  /\ [][\A l \in Loops : PassStep(l) =>
          \A i \in DOMAIN tasks : SkipDue(i) =>
            /\ tasks'[i].status = Completed
            /\ tasks'[i].status_detail = "skipped"]_vars
  /\ [](\A i \in DOMAIN tasks : tasks[i].status_detail = "skipped" =>
          /\ tasks[i].status = Completed
          /\ tasks[i].client_id = None
          /\ tasks[i].start_time = None
          /\ delivered[i] = 0
          /\ \A k \in DOMAIN clients : clients[k].task_id # tasks[i].id
          /\ \A l \in Loops : loop[l].task # i)
  /\ [][\A i \in DOMAIN tasks : Skipped(i) =>
          /\ tasks'[i].status = Completed
          /\ tasks'[i].status_detail = "skipped"]_vars

\* a job was skipped, and the loop is running and about to make another pass
C11_Witness ==
  /\ \E i \in DOMAIN tasks : Skipped(i)
  /\ is_running
  /\ \E l \in Loops : loop[l].pc = "top"

\* ---- C12 ----
\* C12: whatever the order in which the fragments 0..n-1 arrive, retransmitted
\* duplicates included, the payload the image_chunk branch joins is the
\* concatenation of the fragments in index order.
C12_ReassemblyOrderIndependent ==
  base64_data # None => base64_data = InIndexOrder(upload.data, upload.total_chunks)

\* an image of MaxChunks pairwise different chunks was joined, and chunks of a
\* retransmission are held in an order that is not the index order
C12_Witness ==
  /\ base64_data # None
  /\ upload.total_chunks = MaxChunks
  /\ \A j, k \in 0..(MaxChunks - 1) : j # k => upload.data[j] # upload.data[k]
  /\ \E i \in 1..MaxTasks :
       /\ Len(chunk_buffer[i]) = 2
       /\ chunk_buffer[i][1].index > chunk_buffer[i][2].index

\* ---- C13 ----
\* the step in which the send of loop l raised: the loop is back at the top and
\* no task message was delivered
SendFailStep(l) ==
  /\ loop[l].pc = "send"
  /\ loop'[l].pc = "top"
  /\ delivered' = delivered

\* C13: in the very step in which the send of the task message fails, without
\* any sweep or clock advance, the job is Pending again, the worker (if still
\* in the pool) is not busy and names no job, and the loop keeps running.
C13_SendFailureReverts ==
  [][\A l \in Loops : SendFailStep(l) =>
       /\ tasks'[loop[l].task].status = Pending
       /\ \A k \in DOMAIN clients' :
            clients'[k].id = loop[l].client_id =>
              /\ ~clients'[k].busy
              /\ clients'[k].task_id = None
       /\ now' = now
       /\ is_running' = is_running
       /\ current_index' = current_index]_vars

\* the only job was dispatched and never delivered; it is Pending again and its
\* worker is in the pool, idle, while the loop is running at the top
C13_Witness ==
  /\ Len(tasks) = 1
  /\ RevertedPending(1)
  /\ delivered[1] = 0
  /\ is_running
  /\ \E l \in Loops : loop[l].pc = "top"
  /\ \E k \in DOMAIN clients :
       /\ clients[k].id = tasks[1].client_id
       /\ ~clients[k].busy
       /\ clients[k].task_id = None
       /\ clients[k].last_task_end = <<now>>

\* ---- C14 ----
\* C14: when the first message of a connection is not a registration, the
\* handler ends in that step, leaves the pool, the queue, the cursor, the page
\* counter and the chunk buffer as they were, and processes nothing afterwards.
C14_BadFirstMessage ==
  [][\A c \in Conns :
       /\ (handler[c].pc = "recv_first" /\ handler'[c].pc = "done") =>
            /\ handler'[c].client_id = None
            /\ UNCHANGED <<tasks, current_index, is_running, clients,
                           next_page_number, chunk_buffer, files>>
       /\ handler[c].pc = "done" => handler'[c] = handler[c]]_vars

\* a connection was rejected (no page number was consumed for it) while the
\* queue holds a job and the pool holds a worker
C14_Witness ==
  /\ handler[MaxConns].pc = "done"
  /\ next_page_number = MaxConns
  /\ Len(clients) = 1
  /\ Len(tasks) > 0

\* ---- C15 ----
\* the step in which the handler of a registered connection ends
ExitStep(c) ==
  /\ handler[c].pc \in {"send_ack", "serve"}
  /\ handler'[c].pc = "done"

\* C15: whenever the handler of a registered connection ends, remove_client
\* has run for its worker id: no entry of the pool carries that id afterwards;
\* when the id was not in the pool, the step changes nothing but the handler.
\* remove_client for an id that is not in the pool returns the state unchanged.
C15_ExitUnregisters ==
  /\ [][\A c \in Conns : ExitStep(c) =>
          /\ tasks' = RemoveClientTasks(tasks, clients, handler[c].client_id)
          /\ clients' = RemoveClientClients(clients, handler[c].client_id)
          /\ \A k \in DOMAIN clients' : clients'[k].id # handler[c].client_id
          /\ FindClient(clients, handler[c].client_id) = 0 =>
               UNCHANGED <<tasks, current_index, is_running, clients,
                           next_page_number, files, now, loop, delivered>>]_vars
  /\ [](\A c \in Conns :
          FindClient(clients, handler[c].client_id) = 0 =>
            /\ RemoveClientTasks(tasks, clients, handler[c].client_id) = tasks
            /\ RemoveClientClients(clients, handler[c].client_id) = clients)

\* the first connection was evicted by a registration under its page url while
\* its job was Processing, and its handler has ended since: the job is still
\* Processing and its worker id is not in the pool
C15_Witness ==
  /\ handler[1].pc = "done"
  /\ Len(clients) = 1
  /\ \E i \in DOMAIN tasks :
       /\ tasks[i].status = Processing
       /\ FindClient(clients, tasks[i].client_id) = 0

\* ---- C16 ----
\* an entry as mark_client_idle leaves it at time t
IdleStamped(e, t) ==
  /\ ~e.busy
  /\ e.task_id = None
  /\ e.last_task_end = <<t>>

\* a step that persisted (or failed to persist) a payload for job i
PersistStep(i) ==
  \/ /\ tasks[i].status # DownloadFailed
     /\ tasks'[i].status = DownloadFailed
  \/ /\ tasks[i].status # Completed
     /\ tasks'[i].status = Completed
     /\ tasks'[i].status_detail # "skipped"

\* C16: handle_image_result sets the job to Completed when the write succeeds
\* and to DownloadFailed when it fails, and in both cases the entry of the
\* worker that delivered the payload (if in the pool) is left not busy, with no
\* current job and with the completion time stamped.
C16_PersistFreesWorker ==
  /\ [](\A c \in Conns, i \in DOMAIN tasks : Knows(c, i) =>
          /\ ImageResultTasks(tasks, tasks[i].id, TRUE, now)[i].status = Completed
          /\ ImageResultTasks(tasks, tasks[i].id, FALSE, now)[i].status = DownloadFailed
          /\ \A k \in DOMAIN clients : clients[k].id = handler[c].client_id =>
               IdleStamped(ImageResultClients(clients, handler[c].client_id, now)[k], now))
  /\ [][\A i \in DOMAIN tasks : PersistStep(i) =>
          /\ delivered[i] # 0
          /\ tasks'[i].end_time = <<now>>
          /\ \A k \in DOMAIN clients' :
               clients'[k].id = handler[delivered[i]].client_id =>
                 IdleStamped(clients'[k], now)]_vars

\* one job was saved and another failed to save, and the worker that delivered
\* the later of the two is in the pool with that completion time stamped
C16_Witness ==
  \E i, j \in DOMAIN tasks, k \in DOMAIN clients :
    /\ tasks[i].status = Completed
    /\ tasks[i].status_detail # "skipped"
    /\ tasks[j].status = DownloadFailed
    /\ clients[k].id = tasks[j].client_id
    /\ IdleStamped(clients[k], tasks[j].end_time[1])

\* ---- C17 ----
\* the step in which the loop l ends by itself (the break of the drain check)
DrainExitStep(l) ==
  /\ loop[l].pc = "body"
  /\ loop'[l].pc = "off"

\* C17: the loop ends by itself only when get_next_task finds no job and no
\* worker is busy, and at that moment no job is Pending and none is Processing.
C17_ExitMeansDrained ==
  [][\A l \in Loops : DrainExitStep(l) =>
       /\ GetNextTask(tasks', current_index') >= Len(tasks')
       /\ \A k \in DOMAIN clients' : ~clients'[k].busy
       /\ \A i \in DOMAIN tasks' : tasks'[i].status \notin {Pending, Processing}]_vars

\* ---- C18 ----
\* C18: stop_execution clears the running flag and changes no job and no
\* worker; while the flag stays cleared the loop moves no job from Pending to
\* Processing and starts no send of a task message.
C18_StopIsNotCancellation ==
  [][/\ (is_running /\ ~is_running' /\ loop' = loop) =>
          /\ tasks' = tasks
          /\ clients' = clients
          /\ current_index' = current_index
     /\ (~is_running /\ ~is_running') =>
          /\ \A i \in DOMAIN tasks :
               ~(tasks[i].status = Pending /\ tasks'[i].status = Processing)
          /\ \A l \in Loops : loop'[l].pc = "send" => loop[l].pc = "send"]_vars

\* ---- C19 ----
\* the step in which connection c registers
RegisterStep(c) ==
  /\ handler[c].pc = "recv_first"
  /\ handler'[c].pc = "send_ack"

\* the page url connection c registered under in this step
RegisteredUrl(c) == clients'[FindClient(clients', handler'[c].client_id)].url

\* C19: the id register_client returns differs from the id of every worker in
\* the pool (the one evicted for having the same page url aside), so that a
\* registration under a page url not in the pool adds exactly one entry.
C19_FreshWorkerId ==
  [][\A c \in DOMAIN handler : RegisterStep(c) =>
       /\ \A k \in DOMAIN clients :
            clients[k].url # RegisteredUrl(c) => clients[k].id # handler'[c].client_id
       /\ (\A k \in DOMAIN clients : clients[k].url # RegisteredUrl(c)) =>
            Len(clients') = Len(clients) + 1]_vars

\* ---- C20 ----
\* C20: every change the front end makes to the job list, the worker map or the
\* running flag is a step of the event loop's own thread, so no such change
\* happens while the loop coroutine is inside a pass, between two of its
\* suspension points, other than by the pass itself.
C20_FrontEndMarshaled ==
  [][(\E l \in Loops : loop[l].pc = "body" /\ loop'[l].pc = "body") =>
       UNCHANGED <<tasks, clients, is_running>>]_vars

\* ---- C21 ----
\* job i has been handed out by the loop: dispatched to a worker at least once,
\* or skipped to Completed
HandedOut(ts, i) ==
  \/ ts[i].start_time # None
  \/ ts[i].status = Completed /\ ts[i].status_detail = "skipped"

UnregisterStep(c, k) ==
  /\ ExitStep(c)
  /\ k \in DOMAIN clients
  /\ clients[k].id = handler[c].client_id

FreedInStep(k, m) ==
  /\ clients'[m].id = clients[k].id
  /\ clients'[m].ws = clients[k].ws
  /\ clients[k].busy
  /\ ~clients'[m].busy

\* C23: every step that frees a worker stamps its last_task_end with the time
\* of the step, so that get_idle_client does not return the worker before the
\* cooldown has elapsed.
C23_FreeingStartsCooldown ==
  [][\A k \in DOMAIN clients : \A m \in DOMAIN clients' :
       FreedInStep(k, m) =>
         /\ clients'[m].last_task_end = <<now>>
         /\ ~IsIdle(clients'[m], now')]_vars

\* ---- C24 ----
\* the pass of loop l ends in a sleep while a Pending task is left at or after
\* the cursor: get_next_task returned a task and get_idle_client returned none
NoIdleStep(l) ==
  /\ loop[l].pc = "body"
  /\ loop'[l].pc = "top"
  /\ \E i \in DOMAIN tasks' : i > current_index' /\ tasks'[i].status = Pending

\* C24: a pass that finds a Pending task and no idle worker leaves the task
\* as it was, Pending and at the cursor, leaves the cursor and every worker
\* entry unchanged, and sends no task message.
C24_NoIdleKeepsJob ==
  [][\A l \in Loops :
       NoIdleStep(l) =>
         /\ current_index' = current_index
         /\ current_index < Len(tasks)
         /\ tasks[current_index + 1].status = Pending
         /\ tasks'[current_index + 1] = tasks[current_index + 1]
         /\ clients' = clients
         /\ delivered' = delivered
         /\ \A m \in Loops : m # l => loop'[m] = loop[m]]_vars

\* a pass is running with a Pending task at the cursor while the only
\* registered worker is in its cooldown
C24_Witness ==
  /\ \E l \in Loops : loop[l].pc = "body"
  /\ current_index < Len(tasks)
  /\ tasks[current_index + 1].status = Pending
  /\ Len(clients) = 1
  /\ ~clients[1].busy
  /\ clients[1].last_task_end # None
  /\ GetIdleClient(PassClients, now) = 0

\* ---- C25 ----
\* the step handles an image_chunk message of connection c: it stores a
\* fragment or consumes the buffer of a task
ChunkStep(c) ==
  /\ handler[c].pc = "serve"
  /\ chunk_buffer' # chunk_buffer

\* C25: handling an image_chunk message never ends the handler, whatever the
\* index of the fragment, and a buffer is emptied only by a completion, whose
\* payload is the fragments of indexes 0..total-1 in index order.
C25_ChunkIngestSafe ==
  [][\A c \in Conns :
       ChunkStep(c) =>
         /\ handler'[c].pc = "serve"
         /\ \A i \in DOMAIN chunk_buffer :
              (chunk_buffer[i] # <<>> /\ chunk_buffer'[i] = <<>>) =>
                base64_data' = InIndexOrder(upload.data, upload.total_chunks)]_vars

\* ---- C26 ----
\* C26: a result message with an error sets the job it names to Failed, with
\* the error as status detail and the end time stamped, and changes nothing
\* else of the job list; a result message without error leaves the job list
\* unchanged.  Checked on the result branch for every job a worker can name,
\* and on every step in which a job becomes Failed.
C26_ResultSetsFailed ==
  /\ [](\A c \in Conns : \A i \in 1..MaxTasks :
          Knows(c, i) =>
            /\ ResultTasks(tasks, tasks[i].id, TRUE, now) =
                 [tasks EXCEPT ![i].status = Failed,
                               ![i].status_detail = "error",
                               ![i].end_time = <<now>>]
            /\ ResultTasks(tasks, tasks[i].id, FALSE, now) = tasks)
  /\ [][\A i \in DOMAIN tasks :
          (tasks[i].status # Failed /\ tasks'[i].status = Failed) =>
            /\ tasks'[i].status_detail = "error"
            /\ tasks'[i].end_time = <<now>>
            /\ \A j \in DOMAIN tasks : j # i => tasks'[j] = tasks[j]]_vars

\* a job failed by a result message, in a list of two jobs
C26_Witness ==
  /\ Len(tasks) = 2
  /\ \E i \in DOMAIN tasks :
       /\ tasks[i].status = Failed
       /\ tasks[i].status_detail = "error"
       /\ tasks[i].end_time = <<now>>

\* ---- C27 ----
\* the prompt is empty or made of blanks only
Blank(prompt) == \A k \in DOMAIN prompt : prompt[k] = " "

\* the job appended last is as add_task builds it
FreshJob(ts) ==
  /\ ts[Len(ts)].status = Pending
  /\ ts[Len(ts)].client_id = None
  /\ ts[Len(ts)].start_time = None
  /\ ts[Len(ts)].end_time = None
  /\ ts[Len(ts)].task_type = "Text to Video" => ts[Len(ts)].reference_images = <<>>

\* C27: add_task with a blank prompt returns the job list unchanged; with any
\* other prompt it appends one job, Pending, with no worker, no start and no
\* end time, and with an empty reference list when the type is text-only,
\* whatever list was passed; the jobs already in the list, the cursor and the
\* pool are unchanged by the step that appends.
C27_AppendRejectsBlank ==
  /\ [](\A prompt \in Prompts, task_type \in TaskTypes,
           reference_images \in ReferenceLists, row \in RowTags :
          LET ts == AddTaskResult(tasks, prompt, task_type, reference_images, row, now)
          IN IF Blank(prompt) THEN ts = tasks
             ELSE /\ Len(ts) = Len(tasks) + 1
                  /\ SubSeq(ts, 1, Len(tasks)) = tasks
                  /\ FreshJob(ts)
                  /\ ts[Len(ts)].task_type = task_type
                  /\ task_type # "Text to Video" =>
                       ts[Len(ts)].reference_images = reference_images)
  /\ [][Len(tasks') # Len(tasks) =>
          /\ Len(tasks') = Len(tasks) + 1
          /\ SubSeq(tasks', 1, Len(tasks)) = tasks
          /\ FreshJob(tasks')
          /\ current_index' = current_index
          /\ clients' = clients]_vars

\* a text-only job was appended behind a dispatched job that carries a
\* reference image
C27_Witness ==
  /\ Len(tasks) = 2
  /\ current_index = 1
  /\ tasks[1].task_type = "Frames to Video"
  /\ tasks[1].reference_images = <<"img">>
  /\ tasks[2].task_type = "Text to Video"
  /\ tasks[2].status = Pending

\* ---- C28 ----
\* C28: in every reachable state the jobs of the list have pairwise different
\* ids.
C28_UniqueJobIds ==
  \A i, j \in DOMAIN tasks : tasks[i].id = tasks[j].id => i = j

\* ---- C29 ----
\* the entry is not busy and its cooldown, if it has completed a job, is over
Eligible(e, t) ==
  /\ e.busy = FALSE
  /\ e.last_task_end # None => t - e.last_task_end[1] >= CLIENT_COOLDOWN_SECONDS

\* the pass of loop l assigns a task to a worker
DispatchStep(l) ==
  /\ loop[l].pc = "body"
  /\ loop'[l].pc = "send"

LeavesPool(k) ==
  \A m \in DOMAIN clients' :
    clients'[m].id # clients[k].id \/ clients'[m].ws # clients[k].ws

\* C30: a step in which a worker leaves the pool puts the job the worker was
\* processing back to Pending, and in every reachable state the worker of a
\* Processing job is registered in the pool.
C30_LeavingRequeues ==
  /\ [][\A k \in DOMAIN clients :
          LeavesPool(k) =>
            \A i \in DOMAIN tasks :
              (tasks[i].id = clients[k].task_id /\ tasks[i].status = Processing)
                => tasks'[i].status = Pending]_vars
  /\ [](\A i \in DOMAIN tasks :
          tasks[i].status = Processing =>
            \E k \in DOMAIN clients : clients[k].id = tasks[i].client_id)

\* ---- C31 ----
\* the step handles a message of a worker that names job i: the job gets the
\* outcome of an image (Completed, DownloadFailed) or of a result with an
\* error (Failed), and no dispatch loop moves
NamedByMessage(i) ==
  /\ loop' = loop
  /\ tasks'[i] # tasks[i]
  /\ tasks'[i].status \in {Completed, DownloadFailed, Failed}

\* C31: a message that names job i frees a busy worker only when job i is the
\* job that worker is processing.
C31_OnlyCurrentJobFrees ==
  [][\A i \in DOMAIN tasks : \A k \in DOMAIN clients : \A m \in DOMAIN clients' :
       (NamedByMessage(i) /\ FreedInStep(k, m)) =>
         clients[k].task_id = tasks[i].id]_vars

\* ---- C32 ----
\* C32: when the handler of connection c ends, every entry of the pool that
\* was registered by another connection is still in the pool, unchanged.
C32_CleanupRemovesOwnWorker ==
  [][\A c \in Conns :
       ExitStep(c) =>
         \A k \in DOMAIN clients :
           clients[k].ws # c =>
             \E m \in DOMAIN clients' : clients'[m] = clients[k]]_vars

\* ---- C33 ----
\* C33: in every reachable state at most one _execute_tasks coroutine is
\* scheduled or running.
C33_OneLoopActive ==
  Cardinality({l \in Loops : loop[l].pc # "off"}) <= 1

\* ---- C34 ----
\* the step raises the running flag or schedules a dispatch loop
StartStep ==
  \/ ~is_running /\ is_running'
  \/ \E l \in Loops : loop[l].pc = "off" /\ loop'[l].pc # "off"

\* C34: the running flag is raised and a loop is scheduled only in a step
\* taken with at least one worker in the pool and a job in the list; the step
\* raises the flag, schedules one loop at the head of its while, and leaves
\* the job list, the cursor and the pool unchanged.
C34_StartNeedsWorkerAndJob ==
  [][StartStep =>
       /\ Len(clients) >= 1
       /\ Len(tasks) >= 1
       /\ is_running'
       /\ \E l \in Loops :
            /\ loop[l].pc = "off"
            /\ loop' = [loop EXCEPT ![l].pc = "top"]
       /\ UNCHANGED <<tasks, current_index, clients>>]_vars

\* a loop has just been started: flag raised, loop at the head of its while,
\* no job handed out yet
C34_Witness ==
  /\ is_running
  /\ \E l \in Loops : loop[l].pc = "top"
  /\ Len(clients) >= 1
  /\ Len(tasks) >= 1
  /\ current_index = 0
  /\ \A i \in DOMAIN tasks : tasks[i].status = Pending /\ tasks[i].start_time = None

====
